---------------------------- MODULE Spec2Model ----------------------------
(***************************************************************************)
(* A model of pm-competitive-radar: the heuristic analyzers and the        *)
(* "Analyze Competitors" handler of real_data_app.py, and the cached       *)
(* agent workflow of agno_app.py / competitive_intelligence.py.            *)
(*                                                                         *)
(* Text is modelled by TLA+ strings, on which TLC evaluates Len, SubSeq    *)
(* and \o, so that lower-casing, splitting, stripping, substring search    *)
(* and tokenising are computed character by character as Python does.      *)
(***************************************************************************)
EXTENDS Integers, Sequences, FiniteSets, TLC

VARIABLES
    app,            \* which entry point this process runs
    hashseed,       \* the interpreter's string-hash seed (fixed per process)
    arg,            \* analyzer harness: the argument of the call
    ret,            \* analyzer harness: the value returned (or the raise)
    current_report, \* real_data_app: st.session_state.current_report
    outcome,        \* real_data_app: how the last click of the button ended
    fetched,        \* real_data_app: the selection and the API's answers that
                    \* current_report was made from
    prev_run,       \* real_data_app: last run of the previous process
    week,           \* workflow: the calendar week datetime.now() falls in
    reports,        \* workflow: session_state["reports"] ("unset" or a list)
    response,       \* workflow: what the last run() returned
    calls           \* workflow: calls made by the last run(), what its agents did

vars == <<app, hashseed, arg, ret, current_report, outcome, fetched, prev_run,
          week, reports, response, calls>>

---------------------------------------------------------------------------
(* Python's str operations, character by character.                        *)

Uppers == "ABCDEFGHIJKLMNOPQRSTUVWXYZ"
Lowers == "abcdefghijklmnopqrstuvwxyz"
Digits == "0123456789"

CharAt(s, i) == SubSeq(s, i, i)

Chars(s) == {CharAt(s, i) : i \in 1..Len(s)}

\* s.find(c) + 1 for a single character: 0 when c is not in s.
IndexOf(c, s) ==
    IF \E i \in 1..Len(s) : CharAt(s, i) = c
    THEN CHOOSE i \in 1..Len(s) :
            CharAt(s, i) = c /\ \A j \in 1..(i - 1) : CharAt(s, j) # c
    ELSE 0

ToLower == [c \in Chars(Uppers) |-> CharAt(Lowers, IndexOf(c, Uppers))]
ToUpper == [c \in Chars(Lowers) |-> CharAt(Uppers, IndexOf(c, Lowers))]

LowerChar(c) == IF c \in DOMAIN ToLower THEN ToLower[c] ELSE c

UpperChar(c) == IF c \in DOMAIN ToUpper THEN ToUpper[c] ELSE c

RECURSIVE str_lower(_)
str_lower(s) ==
    IF s = "" THEN ""
    ELSE IF Len(s) = 1 THEN LowerChar(s)
    ELSE LET half == Len(s) \div 2
         IN  str_lower(SubSeq(s, 1, half)) \o str_lower(SubSeq(s, half + 1, Len(s)))

\* str.capitalize(): first character upper-cased, the rest lower-cased.
str_capitalize(s) ==
    IF s = "" THEN "" ELSE UpperChar(CharAt(s, 1)) \o str_lower(Tail(s))

IsSpace(c) == c \in {" ", "\t", "\n", "\r"}

\* \w of the re module: letters, digits and the underscore.
WordChars == Chars(Lowers) \cup Chars(Uppers) \cup Chars(Digits) \cup {"_"}

IsWordChar(c) == c \in WordChars

RECURSIVE str_lstrip(_)
str_lstrip(s) ==
    IF s # "" /\ IsSpace(CharAt(s, 1)) THEN str_lstrip(Tail(s)) ELSE s

RECURSIVE str_rstrip(_)
str_rstrip(s) ==
    IF s # "" /\ IsSpace(CharAt(s, Len(s)))
    THEN str_rstrip(SubSeq(s, 1, Len(s) - 1))
    ELSE s

str_strip(s) == str_rstrip(str_lstrip(s))

\* s.split(sep) for a one-character separator: empty pieces are kept.
RECURSIVE str_split(_, _)
str_split(s, sep) ==
    LET i == IndexOf(sep, s)
    IN  IF i = 0
        THEN <<s>>
        ELSE <<SubSeq(s, 1, i - 1)>> \o str_split(SubSeq(s, i + 1, Len(s)), sep)

\* `word in s` on strings: substring containment.
str_contains(s, word) ==
    \E i \in 1..(Len(s) - Len(word) + 1) : SubSeq(s, i, i + Len(word) - 1) = word

\* s[:n]
str_prefix(s, n) == SubSeq(s, 1, IF Len(s) < n THEN Len(s) ELSE n)

\* re.findall(r'\b\w+\b', s): the maximal runs of word characters, in order.
RECURSIVE WordRun(_)
WordRun(s) ==
    IF s # "" /\ IsWordChar(CharAt(s, 1))
    THEN CharAt(s, 1) \o WordRun(Tail(s))
    ELSE ""

RECURSIVE re_findall_words(_)
re_findall_words(s) ==
    IF s = "" THEN <<>>
    ELSE IF IsWordChar(CharAt(s, 1))
         THEN LET w == WordRun(s)
              IN  <<w>> \o re_findall_words(SubSeq(s, Len(w) + 1, Len(s)))
         ELSE re_findall_words(Tail(s))

---------------------------------------------------------------------------
(* Python's list, set and Counter operations.                              *)

\* Mutant of Take: the slice is forgotten.
TakeAll(xs, n) == xs

\* xs[:n]
Take(xs, n) == SubSeq(xs, 1, IF Len(xs) < n THEN Len(xs) ELSE n)

Range(xs) == {xs[i] : i \in 1..Len(xs)}

\* [xs[i] for i in keep], in the order of xs.
AtIndices(xs, keep) ==
    LET F[i \in 0..Len(xs)] ==
            IF i = 0 THEN <<>>
            ELSE IF i \in keep THEN Append(F[i - 1], xs[i]) ELSE F[i - 1]
    IN  F[Len(xs)]

\* The distinct elements of xs in order of first occurrence.
Dedupe(xs) ==
    AtIndices(xs, {i \in 1..Len(xs) : \A j \in 1..(i - 1) : xs[j] # xs[i]})

RemoveAt(xs, i) == SubSeq(xs, 1, i - 1) \o SubSeq(xs, i + 1, Len(xs))


\* list(set(xs)): the distinct elements of xs in the iteration order of a set
\* of str.  That order is fixed by the process's string-hash seed and not by
\* the program: seed 0 gives insertion order, the others rotate and permute
\* it (every permutation is the image of some seed).
RECURSIVE PermuteBySeed(_, _)
PermuteBySeed(b, s) ==
    IF Len(b) <= 1 THEN b
    ELSE LET i == (s % Len(b)) + 1
         IN  <<b[i]>> \o PermuteBySeed(SubSeq(b, i + 1, Len(b)) \o SubSeq(b, 1, i - 1),
                                       s \div Len(b))

\* Mutant of list_of_set: the list as it is, so repeated lines stay.
list_with_repeats(xs, seed) == xs

list_of_set(xs, seed) == PermuteBySeed(Dedupe(xs), seed)

\* collections.Counter as the sequence of its (elem, count) items in
\* insertion order, which is the order a dict iterates in.
CounterAdd(c, w) ==
    IF \E i \in 1..Len(c) : c[i].elem = w
    THEN LET i == CHOOSE i \in 1..Len(c) : c[i].elem = w
         IN  [c EXCEPT ![i].count = @ + 1]
    ELSE Append(c, [elem |-> w, count |-> 1])

RECURSIVE CounterUpdate(_, _)
CounterUpdate(c, ws) ==
    IF ws = <<>> THEN c ELSE CounterUpdate(CounterAdd(c, Head(ws)), Tail(ws))

Counter(ws) == CounterUpdate(<<>>, ws)

\* Mutant of SortByCount: the items are left in insertion order.
RECURSIVE Unsorted(_)
Unsorted(c) == IF c = <<>> THEN <<>> ELSE <<Head(c)>> \o Unsorted(Tail(c))

\* sorted(items, key=count, reverse=True): stable, so equal counts stay in
\* insertion order.
RECURSIVE SortByCount(_)
SortByCount(c) ==
    IF c = <<>> THEN <<>>
    ELSE LET i == CHOOSE i \in 1..Len(c) :
                    /\ \A j \in 1..Len(c) : c[j].count <= c[i].count
                    /\ \A j \in 1..(i - 1) : c[j].count < c[i].count
         IN  <<c[i]>> \o SortByCount(RemoveAt(c, i))

\* Counter.most_common(n)
most_common(c, n) == Take(SortByCount(c), n)

RECURSIVE Flatten(_)
Flatten(xss) == IF xss = <<>> THEN <<>> ELSE Head(xss) \o Flatten(Tail(xss))

---------------------------------------------------------------------------
(* JSON values as GitHub returns them.  A text field is a string, null or  *)
(* missing from the object.                                                *)

Str(s) == [t |-> "str", v |-> s]
Null   == [t |-> "null", v |-> ""]
Absent == [t |-> "absent", v |-> ""]

\* dict.get(key, default): the default only replaces a missing key.
dict_get(field, default) == IF field.t = "absent" THEN Str(default) ELSE field

---------------------------------------------------------------------------
(* real_data_app.py: analyze_releases                                      *)

FEATURE_WORDS  == <<"feature", "new", "add", "implement">>
BREAKING_WORDS == <<"breaking", "deprecated", "removed">>

DescriptionLimit == 200
DateLength       == 10
LinesPerRelease  == 2
KeyFeaturesCap   == 5
BreakingCap      == 3

\* any(word in s for word in words)
any_word_in(words, s) == \E k \in 1..Len(words) : str_contains(s, words[k])

\* The stripped lines of the lower-cased body that mention one of `words`,
\* or nothing when the body as a whole mentions none of them.
matching_lines(body, words) ==
    IF any_word_in(words, body)
    THEN LET lines == str_split(body, "\n")
             hits  == AtIndices(lines,
                        {i \in 1..Len(lines) :
                            any_word_in(words, str_lower(lines[i]))})
         IN  [i \in 1..Len(hits) |-> str_strip(hits[i])]
    ELSE <<>>

\* Mutant of release_info: a long body is cut and no ellipsis is added.
release_info_without_ellipsis(release) ==
    LET body == dict_get(release.body, "").v
    IN  [version     |-> release.tag_name,
         date        |-> IF release.published_at # ""
                         THEN str_prefix(release.published_at, DateLength)
                         ELSE "",
         description |-> str_prefix(body, DescriptionLimit)]

release_info(release) ==
    LET body == dict_get(release.body, "").v
    IN  [version     |-> release.tag_name,
         date        |-> IF release.published_at # ""
                         THEN str_prefix(release.published_at, DateLength)
                         ELSE "",
         description |-> IF Len(body) > DescriptionLimit
                         THEN str_prefix(body, DescriptionLimit) \o "..."
                         ELSE body]

\* len(None) and None.lower() raise TypeError / AttributeError.
release_raises(release) ==
    ~release.draft /\ dict_get(release.body, "").t = "null"

release_features(release) ==
    Take(matching_lines(str_lower(dict_get(release.body, "").v), FEATURE_WORDS),
         LinesPerRelease)

release_breaking(release) ==
    Take(matching_lines(str_lower(dict_get(release.body, "").v), BREAKING_WORDS),
         LinesPerRelease)

\* Mutant of not_draft: the draft flag is not looked at.
drafts_too(releases) == releases

\* The releases the loop does not skip: `if not release.get("draft", False)`.
not_draft(releases) == SelectSeq(releases, LAMBDA r : ~r.draft)

\* `seed` is the string-hash seed of the process that runs the call.
analyze_releases(releases, seed) ==
    LET live == not_draft(releases)
    IN  IF \E i \in 1..Len(releases) : release_raises(releases[i])
        THEN [raised |-> TRUE, recent_releases |-> <<>>,
              key_features |-> <<>>, breaking_changes |-> <<>>]
        ELSE [raised |-> FALSE,
              recent_releases  |-> [i \in 1..Len(live) |-> release_info(live[i])],
              key_features     |->
                  Take(list_of_set(Flatten(
                          [i \in 1..Len(live) |-> release_features(live[i])]), seed),
                       KeyFeaturesCap),
              breaking_changes |->
                  Take(list_of_set(Flatten(
                          [i \in 1..Len(live) |-> release_breaking(live[i])]), seed),
                       BreakingCap)]

---------------------------------------------------------------------------
(* real_data_app.py: analyze_issues                                        *)

BUG_LABELS      == <<"bug", "error", "crash", "problem">>
BUG_WORDS       == <<"bug", "error", "crash", "issue", "problem", "broken">>
REQUEST_LABELS  == <<"enhancement", "feature", "request">>
REQUEST_WORDS   == <<"feature", "request", "enhancement", "add", "support">>
STOP_WORDS      == <<"issue", "error", "problem">>

MinWordLength == 4
TopWords      == 5
BugsCap       == 5
RequestsCap   == 5

\* any(label.lower() in names for label in labels)
any_label_in(labels, names) ==
    \E k \in 1..Len(labels) : str_lower(labels[k]) \in Range(names)

is_bug(issue) ==
    \/ any_label_in(issue.labels, BUG_LABELS)
    \/ any_word_in(BUG_WORDS, str_lower(issue.title))

\* Mutant of is_feature_request: the second `if` written as `elif`.
is_feature_request_unless_bug(issue) ==
    /\ ~is_bug(issue)
    /\ \/ any_label_in(issue.labels, REQUEST_LABELS)
       \/ any_word_in(REQUEST_WORDS, str_lower(issue.title))

is_feature_request(issue) ==
    \/ any_label_in(issue.labels, REQUEST_LABELS)
    \/ any_word_in(REQUEST_WORDS, str_lower(issue.title))

\* Mutant of important_words: the tokens issue, error, problem are kept.
important_words_with_stop_words(title) ==
    SelectSeq(re_findall_words(title), LAMBDA w : Len(w) > MinWordLength)

important_words(title) ==
    SelectSeq(re_findall_words(title),
              LAMBDA w : Len(w) > MinWordLength /\ w \notin Range(STOP_WORDS))

word_counts(issues) ==
    Counter(Flatten([i \in 1..Len(issues) |->
                        important_words(str_lower(issues[i].title))]))

\* Mutant of recurring_patterns: `count > 1` written as `count >= 1`.
recurring_patterns_keep_single(issues) ==
    LET top  == most_common(word_counts(issues), TopWords)
        kept == SelectSeq(top, LAMBDA e : e.count >= 1)
    IN  [i \in 1..Len(kept) |->
            [pattern |-> str_capitalize(kept[i].elem), count |-> kept[i].count]]

recurring_patterns(issues) ==
    LET top  == most_common(word_counts(issues), TopWords)
        kept == SelectSeq(top, LAMBDA e : e.count > 1)
    IN  [i \in 1..Len(kept) |->
            [pattern |-> str_capitalize(kept[i].elem), count |-> kept[i].count]]

titles_of(issues) == [i \in 1..Len(issues) |-> issues[i].title]

\* Mutant of analyze_issues: an empty list gives a zero-count placeholder.
analyze_issues_with_placeholder(issues) ==
    IF issues = <<>>
    THEN [recurring_issues |-> <<[pattern |-> "None", count |-> 0]>>,
          critical_bugs |-> <<>>, feature_requests |-> <<>>]
    ELSE [recurring_issues |-> recurring_patterns(issues),
          critical_bugs    |-> Take(titles_of(SelectSeq(issues, is_bug)), BugsCap),
          feature_requests |->
              Take(titles_of(SelectSeq(issues, is_feature_request)), RequestsCap)]

analyze_issues(issues) ==
    IF issues = <<>>
    THEN [recurring_issues |-> <<>>, critical_bugs |-> <<>>,
          feature_requests |-> <<>>]
    ELSE [recurring_issues |-> recurring_patterns(issues),
          critical_bugs    |-> Take(titles_of(SelectSeq(issues, is_bug)), BugsCap),
          feature_requests |->
              Take(titles_of(SelectSeq(issues, is_feature_request)), RequestsCap)]

---------------------------------------------------------------------------
(* Inputs.  The hosting API's answers are drawn from fixed pools of        *)
(* releases and issues, in lists of bounded length.                        *)

NumSeeds    == 2
MaxReleases == 3
MaxIssues   == 2
MaxRepeats  == 6

Seeds == 0..(NumSeeds - 1)

SeqsUpTo(S, n) == UNION {[1..k -> S] : k \in 0..n}

PUBLISHED == "2025-01-02T03:04:05Z"

Release(tag, body, draft) ==
    [tag_name |-> tag, published_at |-> PUBLISHED, body |-> body, draft |-> draft]

RECURSIVE Filler(_)
Filler(n) ==
    IF n = 0 THEN ""
    ELSE IF n % 2 = 1 THEN "x" \o Filler(n - 1)
    ELSE LET half == Filler(n \div 2) IN half \o half

ReleasePool ==
    { Release("v1", Str("Added new feature: dark mode\nBreaking: removed legacy config"), FALSE),
      Release("v2", Str("add a, removed x\n  New B deprecated y  \nimplement c"), FALSE),
      Release("v3", Str("add d\nnew e removed z"), FALSE),
      Release("v4", Str("new f\nadd g, breaking w"), FALSE),
      Release("v5", Str(" ADD D\nfix typo"), FALSE),
      Release("v6", Str(""), FALSE),
      Release("v7", Null, FALSE),
      Release("v8", Absent, FALSE),
      Release("v9", Str("add h\nnew i removed v"), TRUE) }

Issue(title, labels) == [title |-> title, labels |-> labels]

IssuePool ==
    { Issue("Build performance regression", <<>>),
      Issue("Unrelated typo fix", <<>>),
      Issue("Crash: timeout, TIMEOUT again", <<"Bug">>),
      Issue("Add alpha bravo charlie delta1 echo22 foxtrot", <<"enhancement">>),
      Issue("Feature request: broken build error", <<>>),
      Issue("snake_case lookup fails", <<>>) }

\* Issue lists: every short list in every order, followed by a run of
\* duplicates of one issue (the same report filed again and again).
Repeat(x, n) == [i \in 1..n |-> x]

IssueLists ==
    {xs \o Repeat(x, n) :
        xs \in SeqsUpTo(IssuePool, MaxIssues), x \in IssuePool, n \in 0..MaxRepeats}

\* Releases whose body is as long as the description may be, one character
\* longer, and short but ending in dots of its own.
BoundaryReleases ==
    { Release("v11", Str("Add " \o Filler(DescriptionLimit - 4)), FALSE),
      Release("v12", Str("Add " \o Filler(DescriptionLimit - 3)), FALSE),
      Release("v13", Str("Work in progress..."), FALSE) }

ReleaseLists ==
    SeqsUpTo(ReleasePool, MaxReleases) \cup {<<release>> : release \in BoundaryReleases}

---------------------------------------------------------------------------
(* The analyzers called on their own: a process that imports               *)
(* real_data_app and calls one analyzer on one argument.                   *)

NoReturn == [fn |-> "none"]

\* The clock: the week keys datetime.now().strftime("%Y-W%U") goes through.
WeekKeys == <<"2025-W50", "2025-W51">>

\* No run() of the workflow yet.
NotRun == [cls |-> "not run"]

NoCalls ==
    [use_cache |-> FALSE, selected |-> <<>>, fetcher |-> 0, agent |-> 0,
     bundles |-> <<>>, agents |-> <<>>, generated |-> "not run"]

Idle ==
    /\ current_report = [set |-> FALSE]
    /\ outcome = "none"
    /\ fetched = [set |-> FALSE]
    /\ prev_run = [set |-> FALSE]
    /\ week = WeekKeys[1]
    /\ reports = [set |-> FALSE, list |-> <<>>]
    /\ response = NotRun
    /\ calls = NoCalls

InitAnalyzeReleases ==
    /\ app = "analyze_releases"
    /\ hashseed \in Seeds
    /\ arg \in ReleaseLists
    /\ ret = NoReturn
    /\ Idle

\* analyze_issues iterates no set: the hash seed plays no part in it.
InitAnalyzeIssues ==
    /\ app = "analyze_issues"
    /\ hashseed = 0
    /\ arg \in IssueLists
    /\ ret = NoReturn
    /\ Idle

CallAnalyzeReleases ==
    /\ app = "analyze_releases"
    /\ ret = NoReturn
    /\ ret' = [fn |-> "analyze_releases", value |-> analyze_releases(arg, hashseed)]
    /\ UNCHANGED <<app, hashseed, arg, current_report, outcome, fetched, prev_run,
                   week, reports, response, calls>>

CallAnalyzeIssues ==
    /\ app = "analyze_issues"
    /\ ret = NoReturn
    /\ ret' = [fn |-> "analyze_issues", value |-> analyze_issues(arg)]
    /\ UNCHANGED <<app, hashseed, arg, current_report, outcome, fetched, prev_run,
                   week, reports, response, calls>>

InitAnalyzers == InitAnalyzeReleases \/ InitAnalyzeIssues

NextAnalyzers == CallAnalyzeReleases \/ CallAnalyzeIssues

SpecAnalyzers == InitAnalyzers /\ [][NextAnalyzers]_vars

---------------------------------------------------------------------------
(* real_data_app.py: get_github_data.  What the hosting API does for one   *)
(* repository is an answer: the transport fails (requests raises), or each *)
(* endpoint answers with a status and, on 200, a JSON list.                *)

HTTP_OK == 200
ReleasesKept == 5

Answer(failed, rstatus, rjson, istatus, ijson) ==
    [transport_error |-> failed,
     releases_status |-> rstatus, releases_json |-> rjson,
     issues_status   |-> istatus, issues_json   |-> ijson]

get_github_data(answer) ==
    IF answer.transport_error
    THEN [releases |-> <<>>, issues |-> <<>>, status |-> "error"]
    ELSE LET releases_data == IF answer.releases_status = HTTP_OK
                              THEN answer.releases_json ELSE <<>>
             issues_data   == IF answer.issues_status = HTTP_OK
                              THEN answer.issues_json ELSE <<>>
         IN  [releases |-> Take(releases_data, ReleasesKept),
              issues   |-> issues_data,
              status   |-> "success"]

---------------------------------------------------------------------------
(* real_data_app.py: the "Analyze Competitors" button of                   *)
(* display_streamlit_dashboard.                                            *)

COMPETITORS == <<"Next.js", "Nuxt", "SvelteKit", "Remix", "Astro">>

TrendsCap == 3

DEFAULT_TRENDS ==
    <<"Performance optimizations", "Developer experience improvements",
      "TypeScript support">>

RECOMMENDATIONS ==
    <<"Monitor emerging patterns in competitor releases",
      "Address common industry pain points",
      "Focus on performance and developer experience",
      "Stay updated with framework-specific optimizations">>

\* The body of the loop for one repository whose fetch succeeded.
combine_analysis(project_name, github_data, seed) ==
    LET release_analysis == analyze_releases(github_data.releases, seed)
        issue_analysis   == analyze_issues(github_data.issues)
    IN  [project_name     |-> project_name,
         recent_releases  |-> release_analysis.recent_releases,
         key_features     |-> release_analysis.key_features,
         breaking_changes |-> release_analysis.breaking_changes,
         recurring_issues |-> issue_analysis.recurring_issues,
         critical_bugs    |-> issue_analysis.critical_bugs,
         feature_requests |-> issue_analysis.feature_requests,
         total_issues     |-> Len(github_data.issues)]

patterns_of(analysis) ==
    [i \in 1..Len(analysis.recurring_issues) |-> analysis.recurring_issues[i].pattern]

\* Mutant of common_statements: `count > 1` written as `count > 0`.
common_statements_any_count(items, prefix, suffix) ==
    LET top  == most_common(Counter(items), TrendsCap)
        kept == SelectSeq(top, LAMBDA e : e.count > 0)
    IN  [i \in 1..Len(kept) |-> prefix \o kept[i].elem \o suffix]

\* [fmt(x) for x, count in counter.most_common(3) if count > 1]
common_statements(items, prefix, suffix) ==
    LET top  == most_common(Counter(items), TrendsCap)
        kept == SelectSeq(top, LAMBDA e : e.count > 1)
    IN  [i \in 1..Len(kept) |-> prefix \o kept[i].elem \o suffix]

\* Mutant of industry_trends_of: the fallback to the default trends is left out.
industry_trends_no_default(analyses) ==
    common_statements(Flatten([i \in 1..Len(analyses) |-> analyses[i].key_features]),
                      "Common focus: ", "")

industry_trends_of(analyses) ==
    LET all_features == Flatten([i \in 1..Len(analyses) |-> analyses[i].key_features])
        trends       == common_statements(all_features, "Common focus: ", "")
    IN  IF trends = <<>> THEN DEFAULT_TRENDS ELSE trends

\* Mutant of common_issues_of: the default trends stand in for an empty list.
common_issues_or_default(analyses) ==
    LET all_issues == Flatten([i \in 1..Len(analyses) |-> patterns_of(analyses[i])])
        common     == common_statements(all_issues, "Industry-wide: ", " issues")
    IN  IF common = <<>> THEN DEFAULT_TRENDS ELSE common

common_issues_of(analyses) ==
    LET all_issues == Flatten([i \in 1..Len(analyses) |-> patterns_of(analyses[i])])
    IN  common_statements(all_issues, "Industry-wide: ", " issues")

\* The report stored in the session (its report_date, today's date, is left
\* out: no property below reads it).
assemble_report(analyses) ==
    [set             |-> TRUE,
     analyses        |-> analyses,
     industry_trends |-> industry_trends_of(analyses),
     common_issues   |-> common_issues_of(analyses),
     recommendations |-> RECOMMENDATIONS]

\* What the API can answer for one repository.
ReleaseByTag(tag) == CHOOSE r \in ReleasePool : r.tag_name = tag

IssueTitled(title) == CHOOSE i \in IssuePool : i.title = title

AnswerPool ==
    { Answer(TRUE, 0, <<>>, 0, <<>>),
      Answer(FALSE, 404, <<>>, 404, <<>>),
      Answer(FALSE, 200, <<ReleaseByTag("v7")>>, 200, <<>>),
      Answer(FALSE, 200, <<ReleaseByTag("v2"), ReleaseByTag("v3")>>,
             200, <<IssueTitled("Build performance regression"),
                    IssueTitled("Build performance regression")>>),
      Answer(FALSE, 200, <<ReleaseByTag("v3")>>,
             200, <<IssueTitled("Crash: timeout, TIMEOUT again")>>),
      Answer(FALSE, 200, <<>>,
             200, <<IssueTitled("Build performance regression"),
                    IssueTitled("Build performance regression"),
                    IssueTitled("Crash: timeout, TIMEOUT again")>>) }

\* The checkboxes the user ticks, in the order of the competitors dict.
Tickable == {"Next.js", "Nuxt", "SvelteKit"}

Selections ==
    {SelectSeq(COMPETITORS, LAMBDA name : name \in ticked) : ticked \in SUBSET Tickable}

\* The loop body for each answer of the pool under each seed, computed once:
\* whether the fetch reported success, whether analyze_releases raises on
\* what was fetched, and the analysis (its project_name still to be set).
LOOP_BODY ==
    [seed \in Seeds, answer \in AnswerPool |->
        LET github_data == get_github_data(answer)
        IN  [success  |-> github_data.status = "success",
             raises   |-> /\ github_data.status = "success"
                          /\ analyze_releases(github_data.releases, seed).raised,
             analysis |-> combine_analysis("", github_data, seed)]]

analysis_for(project_name, answer, seed) ==
    [LOOP_BODY[seed, answer].analysis EXCEPT !.project_name = project_name]

\* analyses after the loop over the selection: one entry per repository
\* whose github_data["status"] is "success".
loop_analyses(selected, answers, seed) ==
    LET kept == AtIndices([i \in 1..Len(selected) |-> i],
                          {i \in 1..Len(selected) :
                              LOOP_BODY[seed, answers[i]].success})
    IN  [k \in 1..Len(kept) |->
            analysis_for(selected[kept[k]], answers[kept[k]], seed)]

\* An exception of analyze_releases is not caught: it ends the handler
\* before the report is stored.
loop_raises(selected, answers, seed) ==
    \E i \in 1..Len(selected) : LOOP_BODY[seed, answers[i]].raises

Unset == [set |-> FALSE]

InitDashboard ==
    /\ app = "real_data_app"
    /\ hashseed \in Seeds
    /\ arg = <<>>
    /\ ret = NoReturn
    /\ Idle

\* A click on "Analyze Competitors".  While prev_run is set the upstream
\* data is what it was for that run: the same selection gets the same answers.
AnalyzeCompetitors ==
    /\ app = "real_data_app"
    /\ \E selected \in Selections :
       \E answers \in [1..Len(selected) -> AnswerPool] :
        /\ prev_run.set => selected = prev_run.selected /\ answers = prev_run.answers
        /\ IF loop_raises(selected, answers, hashseed)
           THEN /\ outcome' = "exception"
                /\ UNCHANGED <<current_report, fetched>>
           ELSE /\ outcome' = "complete"
                /\ current_report' =
                       assemble_report(loop_analyses(selected, answers, hashseed))
                /\ fetched' = [set |-> TRUE, selected |-> selected,
                               answers |-> answers]
    /\ UNCHANGED <<app, hashseed, arg, ret, prev_run, week, reports, response, calls>>

\* The process ends and a new one starts: the session state is gone and the
\* interpreter draws a new hash seed.
Restart ==
    /\ app = "real_data_app"
    /\ hashseed' \in Seeds
    /\ current_report' = Unset
    /\ outcome' = "none"
    /\ fetched' = Unset
    /\ prev_run' = Unset
    /\ UNCHANGED <<app, arg, ret, week, reports, response, calls>>

\* The same, with the upstream data left as it is: the next run is a second
\* run on identical fetched input, and prev_run keeps the first to compare.
RestartOnSameData ==
    /\ app = "real_data_app"
    /\ outcome = "complete"
    /\ hashseed' \in Seeds
    /\ prev_run' = [set |-> TRUE, selected |-> fetched.selected,
                    answers |-> fetched.answers, report |-> current_report]
    /\ current_report' = Unset
    /\ outcome' = "none"
    /\ fetched' = Unset
    /\ UNCHANGED <<app, arg, ret, week, reports, response, calls>>

NextDashboard == AnalyzeCompetitors \/ Restart \/ RestartOnSameData

SpecDashboard == InitDashboard /\ [][NextDashboard]_vars

---------------------------------------------------------------------------
(* agno_app.py and competitive_intelligence.py: the cached agent workflow. *)
(* A Python value carries its class in cls, so that isinstance and         *)
(* truthiness are computed, and model_dump / model_validate convert        *)
(* between a model object and the plain dict kept in the cache.            *)

None == [cls |-> "NoneType"]

PyStr(s) == [cls |-> "str", value |-> s]

PyList(xs) == [cls |-> "list", items |-> xs]

isinstance(x, cls) == x.cls = cls

truthy(x) ==
    CASE x.cls = "NoneType" -> FALSE
      [] x.cls = "str"      -> x.value # ""
      [] x.cls = "list"     -> x.items # <<>>
      [] OTHER              -> TRUE

strip_cls(obj) == [f \in DOMAIN obj \ {"cls"} |-> obj[f]]

with_cls(data, cls) ==
    [f \in DOMAIN data \cup {"cls"} |-> IF f = "cls" THEN cls ELSE data[f]]

\* WeeklyReport.model_dump(): the report and its analyses as plain dicts.
model_dump(report) ==
    LET data == strip_cls(report)
    IN  [data EXCEPT !.analyses = [i \in 1..Len(@) |-> strip_cls(@[i])]]

\* WeeklyReport.model_validate(data): the dict and its analyses as objects.
model_validate(data) ==
    LET report == with_cls(data, "WeeklyReport")
    IN  [report EXCEPT !.analyses =
            [i \in 1..Len(@) |-> with_cls(@[i], "CompetitorAnalysis")]]

REPOSITORY(name) ==
    CASE name = "Next.js"   -> [owner |-> "vercel",     repo |-> "next.js"]
      [] name = "Nuxt"      -> [owner |-> "nuxt",       repo |-> "nuxt"]
      [] name = "SvelteKit" -> [owner |-> "sveltejs",   repo |-> "kit"]
      [] name = "Remix"     -> [owner |-> "remix-run",  repo |-> "remix"]
      [] name = "Astro"     -> [owner |-> "withastro",  repo |-> "astro"]

AgnoReleasesKept  == 3
AgnoIssuesKept    == 20
ReleaseBodyBudget == 500
LabelsKept        == 3
IssueBodyBudget   == 200

\* issue.get("body", ""): the key may be missing from the object.
issue_body(issue) == IF "body" \in DOMAIN issue THEN issue.body ELSE Absent

\* agno_app.py get_github_data: slicing a null release body raises, and the
\* handler of the try block answers with the empty bundle.
agno_get_github_data(owner, repo, answer) ==
    LET repository_url == "https://github.com/" \o owner \o "/" \o repo
        empty == [releases |-> <<>>, issues |-> <<>>,
                  repository_url |-> repository_url]
        releases_data == IF answer.releases_status = HTTP_OK
                         THEN answer.releases_json ELSE <<>>
        issues_data   == IF answer.issues_status = HTTP_OK
                         THEN answer.issues_json ELSE <<>>
        kept_releases == Take(releases_data, AgnoReleasesKept)
        kept_issues   == Take(issues_data, AgnoIssuesKept)
    IN  IF answer.transport_error THEN empty
        ELSE IF \E i \in 1..Len(kept_releases) :
                    dict_get(kept_releases[i].body, "").t = "null"
        THEN empty
        ELSE [releases |->
                [i \in 1..Len(kept_releases) |->
                    [tag_name     |-> kept_releases[i].tag_name,
                     body         |-> str_prefix(dict_get(kept_releases[i].body, "").v,
                                                 ReleaseBodyBudget),
                     published_at |-> kept_releases[i].published_at]],
              issues |->
                [i \in 1..Len(kept_issues) |->
                    [title  |-> kept_issues[i].title,
                     body   |-> LET body == issue_body(kept_issues[i])
                                IN  str_prefix(IF body.t = "str" THEN body.v ELSE "",
                                               IssueBodyBudget),
                     labels |-> Take(kept_issues[i].labels, LabelsKept)]],
              repository_url |-> repository_url]

\* competitive_intelligence.py get_github_data.
ci_get_github_data(answer) ==
    IF answer.transport_error
    THEN [releases |-> <<>>, issues |-> <<>>]
    ELSE [releases |-> Take(IF answer.releases_status = HTTP_OK
                            THEN answer.releases_json ELSE <<>>, ReleasesKept),
          issues   |-> IF answer.issues_status = HTTP_OK
                       THEN answer.issues_json ELSE <<>>]

\* What an agent run does is outside the program: it raises, or it returns
\* a response whose content is the requested model, a text, or nothing.
AGENT_OUTCOMES == {"model", "text", "none", "raises"}

AgentResponse(does, model) ==
    [raises  |-> does = "raises",
     content |-> CASE does = "model" -> model
                   [] does = "text"  -> PyStr("I could not produce the structure.")
                   [] OTHER          -> None]

\* response and response.content and isinstance(response.content, cls)
accepted(reply, cls) ==
    /\ ~reply.raises
    /\ truthy(reply.content)
    /\ isinstance(reply.content, cls)

AgnoCompetitorAnalysis(project_name, repository_url) ==
    [cls |-> "CompetitorAnalysis", project_name |-> project_name,
     repository_url |-> repository_url, recent_releases |-> <<>>,
     key_features |-> <<>>, recurring_issues |-> <<>>]

CICompetitorAnalysis(project_name) ==
    [cls |-> "CompetitorAnalysis", project_name |-> project_name,
     recent_releases |-> <<>>, key_features |-> <<>>, recurring_issues |-> <<>>]

\* What get_github_data returned to analyze_competitor: a bundle with no
\* release and no issue, or one with data.
bundle_was(github_data) ==
    IF github_data.releases = <<>> /\ github_data.issues = <<>> THEN "empty"
    ELSE "data"

\* Mutant of agno_analyze_competitor: whatever the agent answers is taken for
\* the analysis, without the check of its type.
agno_analyze_competitor_unchecked(project_name, env) ==
    LET config      == REPOSITORY(project_name)
        github_data == agno_get_github_data(config.owner, config.repo, env.answer)
    IN  IF github_data.releases = <<>> /\ github_data.issues = <<>>
        THEN [analysis |-> None, fetcher |-> 1, agent |-> 0,
              bundle |-> bundle_was(github_data)]
        ELSE [analysis |-> IF env.agent = "raises" THEN None
                           ELSE AgnoCompetitorAnalysis(project_name,
                                                       github_data.repository_url),
              fetcher |-> 1, agent |-> 1, bundle |-> bundle_was(github_data)]

\* analyze_competitor of agno_app.py, with the calls it made.
\* Mutant of agno_analyze_competitor: the agent is run on an empty bundle too.
agno_analyze_competitor_on_no_data(project_name, env) ==
    LET config      == REPOSITORY(project_name)
        github_data == agno_get_github_data(config.owner, config.repo, env.answer)
        reply    == AgentResponse(env.agent,
                           AgnoCompetitorAnalysis(project_name,
                                                  github_data.repository_url))
    IN  [analysis |-> IF accepted(reply, "CompetitorAnalysis")
                      THEN reply.content ELSE None,
         fetcher |-> 1, agent |-> 1, bundle |-> bundle_was(github_data)]

agno_analyze_competitor(project_name, env) ==
    LET config      == REPOSITORY(project_name)
        github_data == agno_get_github_data(config.owner, config.repo, env.answer)
        reply    == AgentResponse(env.agent,
                           AgnoCompetitorAnalysis(project_name,
                                                  github_data.repository_url))
    IN  IF github_data.releases = <<>> /\ github_data.issues = <<>>
        THEN [analysis |-> None, fetcher |-> 1, agent |-> 0,
              bundle |-> bundle_was(github_data)]
        ELSE [analysis |-> IF accepted(reply, "CompetitorAnalysis")
                           THEN reply.content ELSE None,
              fetcher |-> 1, agent |-> 1, bundle |-> bundle_was(github_data)]

\* analyze_competitor of competitive_intelligence.py: the agent is run on
\* whatever was fetched.
ci_analyze_competitor(project_name, env) ==
    LET github_data == ci_get_github_data(env.answer)
        reply    == AgentResponse(env.agent, CICompetitorAnalysis(project_name))
    IN  [analysis |-> IF accepted(reply, "CompetitorAnalysis")
                      THEN reply.content ELSE None,
         fetcher |-> 1, agent |-> 1, bundle |-> bundle_was(github_data)]

REPORT_DATE == "2025-12-22"

AgnoWeeklyReport(analyses, sources) ==
    [cls |-> "WeeklyReport", report_date |-> REPORT_DATE, analyses |-> analyses,
     industry_trends |-> <<"Frameworks converge on faster builds">>,
     recommendations |-> <<"Track build performance">>,
     sources |-> sources, methodology |-> None]

CIWeeklyReport(analyses) ==
    [cls |-> "WeeklyReport", report_date |-> REPORT_DATE, analyses |-> analyses,
     industry_trends |-> <<"Frameworks converge on faster builds">>,
     recommendations |-> <<"Track build performance">>]

\* The report generator may also fill in sources of its own.
REPORT_OUTCOMES == AGENT_OUTCOMES \cup {"model_with_sources"}

\* Mutant of generate_weekly_report: the built sources replace whatever the
\* agent supplied.
agno_generate_weekly_report_overwriting(analyses, generated) ==
    LET with_url == SelectSeq(analyses, LAMBDA a : a.repository_url # "")
        sources  == [i \in 1..Len(with_url) |->
                        with_url[i].project_name \o ": " \o with_url[i].repository_url]
        reply == IF generated \in {"model_with_sources", "model_with_empty_sources"}
                    THEN AgentResponse("model", AgnoWeeklyReport(analyses, None))
                    ELSE AgentResponse(generated, AgnoWeeklyReport(analyses, None))
    IN  IF accepted(reply, "WeeklyReport")
        THEN IF sources # <<>>
             THEN [reply.content EXCEPT !.sources = PyList(sources)]
             ELSE reply.content
        ELSE None

\* generate_weekly_report of agno_app.py.
agno_generate_weekly_report(analyses, generated) ==
    LET with_url == SelectSeq(analyses, LAMBDA a : a.repository_url # "")
        sources  == [i \in 1..Len(with_url) |->
                        with_url[i].project_name \o ": " \o with_url[i].repository_url]
        reply == CASE generated = "model_with_sources" ->
                          AgentResponse("model",
                              AgnoWeeklyReport(analyses, PyList(<<"GitHub REST API">>)))
                   [] generated = "model_with_empty_sources" ->
                          AgentResponse("model",
                              AgnoWeeklyReport(analyses, PyList(<<>>)))
                   [] OTHER ->
                          AgentResponse(generated, AgnoWeeklyReport(analyses, None))
    IN  IF accepted(reply, "WeeklyReport")
        THEN IF ~truthy(reply.content.sources) /\ sources # <<>>
             THEN [reply.content EXCEPT !.sources = PyList(sources)]
             ELSE reply.content
        ELSE None

\* generate_weekly_report of competitive_intelligence.py.
ci_generate_weekly_report(analyses, generated) ==
    LET reply == AgentResponse(generated, CIWeeklyReport(analyses))
    IN  IF accepted(reply, "WeeklyReport") THEN reply.content ELSE None

\* Mutant of get_cached_report: the lookup never finds an entry.
get_cached_report_absent(session_reports, week_key) == None

\* get_cached_report: the first entry of the list whose week is week_key.
get_cached_report(session_reports, week_key) ==
    IF /\ session_reports.set
       /\ \E i \in 1..Len(session_reports.list) :
              session_reports.list[i].week = week_key
    THEN LET first == CHOOSE i \in 1..Len(session_reports.list) :
                        /\ session_reports.list[i].week = week_key
                        /\ \A j \in 1..(i - 1) :
                              session_reports.list[j].week # week_key
         IN  model_validate(session_reports.list[first].data)
    ELSE None

\* Mutant of cache_append: the new entry replaces the list.
cache_overwrite(list, entry) == <<entry>>

\* self.session_state["reports"].append(entry)
cache_append(list, entry) == Append(list, entry)

MaxCache == 2

WorkflowTickable == {"Next.js", "Nuxt"}

\* The handler of "Run Agno Analysis" calls run() on a non-empty selection.
WorkflowSelections ==
    {SelectSeq(COMPETITORS, LAMBDA name : name \in ticked) :
        ticked \in (SUBSET WorkflowTickable) \ {{}}}

TransportError == Answer(TRUE, 0, <<>>, 0, <<>>)
NotFound       == Answer(FALSE, 404, <<>>, 404, <<>>)
WithData       == Answer(FALSE, 200, <<ReleaseByTag("v3")>>,
                         200, <<IssueTitled("Crash: timeout, TIMEOUT again")>>)

\* What the API answers for a repository and what the data analyzer does
\* when it is run on it.
RepoEnv(answer, agent) == [answer |-> answer, agent |-> agent]

AgnoRepoEnvs ==
    {RepoEnv(NotFound, "model")}
        \cup {RepoEnv(WithData, agent) : agent \in AGENT_OUTCOMES}

CIRepoEnvs ==
    {RepoEnv(TransportError, "model"), RepoEnv(TransportError, "none"),
     RepoEnv(WithData, "model"), RepoEnv(WithData, "raises")}

\* analyze_competitor for each repository that can be ticked under each
\* thing the API and the agent can do, computed once.
AGNO_ANALYZED ==
    [name \in WorkflowTickable, env \in AgnoRepoEnvs |->
        agno_analyze_competitor(name, env)]

CI_ANALYZED ==
    [name \in Range(COMPETITORS), env \in CIRepoEnvs |->
        ci_analyze_competitor(name, env)]

kept_analyses(results) ==
    LET kept == SelectSeq(results, LAMBDA r : truthy(r.analysis))
    IN  [i \in 1..Len(kept) |-> kept[i].analysis]

agent_calls(results) == Cardinality({i \in 1..Len(results) : results[i].agent = 1})

\* What an agent that was run did, as the caller can tell: it raised, or
\* its content was a model object, or was absent or of another type.
agent_did(does) ==
    CASE does = "raises"             -> "raises"
      [] does \in {"text", "none"}   -> "no model"
      [] does = "model_with_sources" -> "model with sources"
      [] OTHER                       -> "model"

\* What the data analyzer did for each repository of the run: "not run"
\* where analyze_competitor returned before running it.
agents_did(results, does) ==
    [i \in 1..Len(results) |->
        IF results[i].agent = 1 THEN agent_did(does[i]) ELSE "not run"]

\* run() returns content; calls records what the run was called with, the
\* fetcher and agent calls it made, and what each agent it ran did.
Returns(content, use_cache, selected, results, agents_run, did, generated) ==
    /\ response' = content
    /\ calls' = [use_cache |-> use_cache, selected |-> selected,
                 fetcher |-> Len(results), agent |-> agents_run,
                 bundles |-> [i \in 1..Len(results) |-> results[i].bundle],
                 agents |-> did, generated |-> generated]

\* run() when the loop over the competitors kept no analysis: the first
\* failure return; the report generator is not run.
no_analyses(use_cache, selected, results, does, no_data) ==
    /\ Returns(no_data, use_cache, selected, results, agent_calls(results),
               agents_did(results, does), "not run")
    /\ UNCHANGED reports

\* run() after generate_weekly_report: the second failure return, or the
\* append to the cache and the return of the report.
after_generate(use_cache, selected, results, does, generated, weekly_report, no_report) ==
    IF ~truthy(weekly_report)
    THEN /\ Returns(no_report, use_cache, selected, results,
                    agent_calls(results) + 1, agents_did(results, does),
                    agent_did(generated))
         /\ UNCHANGED reports
    ELSE /\ Len(reports.list) < MaxCache
         /\ reports' = [set  |-> TRUE,
                        list |-> cache_append(reports.list,
                                     [week |-> week, data |-> model_dump(weekly_report)])]
         /\ Returns(weekly_report, use_cache, selected, results,
                    agent_calls(results) + 1, agents_did(results, does),
                    agent_did(generated))

InitWorkflow ==
    /\ app \in {"agno_app", "competitive_intelligence"}
    /\ hashseed = 0
    /\ arg = <<>>
    /\ ret = NoReturn
    /\ Idle

\* agno_app.py: run(selected_competitors, use_cache).
AgnoRun ==
    /\ app = "agno_app"
    /\ \E selected \in WorkflowSelections, use_cache \in BOOLEAN :
        LET cached_report == IF use_cache THEN get_cached_report(reports, week)
                             ELSE None
        IN  IF truthy(cached_report)
            THEN /\ Returns(cached_report, use_cache, selected, <<>>, 0, <<>>, "not run")
                 /\ UNCHANGED reports
            ELSE \E envs \in [1..Len(selected) -> AgnoRepoEnvs] :
                    LET results == [i \in 1..Len(selected) |->
                                       AGNO_ANALYZED[selected[i], envs[i]]]
                        does    == [i \in 1..Len(selected) |-> envs[i].agent]
                    IN  IF kept_analyses(results) = <<>>
                        THEN no_analyses(use_cache, selected, results, does,
                                 PyStr("No competitor data could be analyzed."))
                        ELSE \E generated \in REPORT_OUTCOMES :
                                 after_generate(use_cache, selected, results, does,
                                     generated,
                                     agno_generate_weekly_report(
                                         kept_analyses(results), generated),
                                     PyStr("Failed to generate weekly report."))
    /\ UNCHANGED <<app, hashseed, arg, ret, current_report, outcome, fetched,
                   prev_run, week>>

\* competitive_intelligence.py: run(use_cache) over the five competitors.
\* One repository may fare differently from the other four.
CIRun ==
    /\ app = "competitive_intelligence"
    /\ \E use_cache \in BOOLEAN :
        LET cached_report == IF use_cache THEN get_cached_report(reports, week)
                             ELSE None
        IN  IF truthy(cached_report)
            THEN /\ Returns(cached_report, use_cache, COMPETITORS, <<>>, 0, <<>>, "not run")
                 /\ UNCHANGED reports
            ELSE \E base \in CIRepoEnvs, odd \in CIRepoEnvs :
                    LET results == [i \in 1..Len(COMPETITORS) |->
                                       CI_ANALYZED[COMPETITORS[i],
                                           IF COMPETITORS[i] = "Nuxt" THEN odd
                                           ELSE base]]
                        does    == [i \in 1..Len(COMPETITORS) |->
                                       IF COMPETITORS[i] = "Nuxt" THEN odd.agent
                                       ELSE base.agent]
                    IN  IF kept_analyses(results) = <<>>
                        THEN no_analyses(use_cache, COMPETITORS, results, does, None)
                        ELSE \E generated \in AGENT_OUTCOMES :
                                 after_generate(use_cache, COMPETITORS, results, does,
                                     generated,
                                     ci_generate_weekly_report(
                                         kept_analyses(results), generated),
                                     None)
    /\ UNCHANGED <<app, hashseed, arg, ret, current_report, outcome, fetched,
                   prev_run, week>>

\* The calendar moves on to the next week.
AdvanceWeek ==
    /\ app \in {"agno_app", "competitive_intelligence"}
    /\ \E i \in 1..(Len(WeekKeys) - 1) :
        /\ week = WeekKeys[i]
        /\ week' = WeekKeys[i + 1]
    /\ UNCHANGED <<app, hashseed, arg, ret, current_report, outcome, fetched,
                   prev_run, reports, response, calls>>

NextWorkflow == AgnoRun \/ CIRun \/ AdvanceWeek

SpecWorkflow == InitWorkflow /\ [][NextWorkflow]_vars

---------------------------------------------------------------------------
(* The three get_github_data called on their own, on what the API can      *)
(* answer: lists longer than every cap, bodies longer than every budget,   *)
(* a null body, and statuses other than 200 on either endpoint.            *)

ManyReleases == 6
ManyIssues   == 101
ManyLabels   == 4
LongBody     == 501

RealIssuesPerPage == 100
CIIssuesPerPage   == 50

RECURSIVE Numeral(_)
Numeral(n) ==
    IF n < 10 THEN SubSeq(Digits, n + 1, n + 1)
    ELSE Numeral(n \div 10) \o SubSeq(Digits, (n % 10) + 1, (n % 10) + 1)

IssueWithBody(title, labels, body) ==
    [title |-> title, labels |-> labels, body |-> body]

RELEASE_JSONS ==
    { <<>>,
      <<ReleaseByTag("v3")>>,
      [i \in 1..ManyReleases |-> Release("r" \o Numeral(i), Str("add d"), FALSE)],
      <<Release("v10", Str(Filler(LongBody)), FALSE)>>,
      <<ReleaseByTag("v7")>> }

ISSUE_JSONS ==
    { <<>>,
      <<IssueTitled("Crash: timeout, TIMEOUT again")>>,
      [i \in 1..ManyIssues |-> Issue("Timeout " \o Numeral(i), <<>>)],
      <<IssueWithBody("Slow build", <<>>, Str(Filler(LongBody)))>>,
      <<IssueWithBody("Slow build", <<>>, Null)>>,
      <<Issue("Slow build", [i \in 1..ManyLabels |-> "label" \o Numeral(i)])>> }

STATUSES == {200, 404, 500}

FetchAnswers ==
    {TransportError} \cup
    {Answer(FALSE, rstatus, IF rstatus = HTTP_OK THEN rjson ELSE <<>>,
                   istatus, IF istatus = HTTP_OK THEN ijson ELSE <<>>) :
        rstatus \in STATUSES, rjson \in RELEASE_JSONS,
        istatus \in STATUSES, ijson \in ISSUE_JSONS}

VARIANTS == {"real_data_app", "agno_app", "competitive_intelligence"}

InitFetcher ==
    /\ app = "get_github_data"
    /\ hashseed = 0
    /\ arg \in [variant : VARIANTS, answer : FetchAnswers]
    /\ ret = NoReturn
    /\ Idle

CallGetGithubData ==
    /\ app = "get_github_data"
    /\ ret = NoReturn
    /\ ret' = [fn    |-> "get_github_data",
               value |-> CASE arg.variant = "real_data_app" ->
                                get_github_data(arg.answer)
                           [] arg.variant = "agno_app" ->
                                agno_get_github_data("vercel", "next.js", arg.answer)
                           [] arg.variant = "competitive_intelligence" ->
                                ci_get_github_data(arg.answer)]
    /\ UNCHANGED <<app, hashseed, arg, current_report, outcome, fetched, prev_run,
                   week, reports, response, calls>>

NextFetcher == CallGetGithubData

SpecFetcher == InitFetcher /\ [][NextFetcher]_vars

---------------------------------------------------------------------------
(* A harness for generate_weekly_report of agno_app: one call on a list of *)
(* analyses, next to the runs of agno_app that cache what it returns.      *)

MaxAnalyses == 2

\* Analyses as the data analyzer hands them over: the repository_url is a
\* field the agent fills in, and it may leave it empty.
AnalysisPool ==
    UNION {{AgnoCompetitorAnalysis(name, url) :
                url \in {"", "https://github.com/" \o REPOSITORY(name).owner
                                \o "/" \o REPOSITORY(name).repo}} :
           name \in WorkflowTickable}

\* The report generator may also answer with a report whose sources is the
\* empty list.
GENERATOR_OUTCOMES == REPORT_OUTCOMES \cup {"model_with_empty_sources"}

InitGenerateWeeklyReport ==
    /\ app = "generate_weekly_report"
    /\ hashseed = 0
    /\ arg \in [analyses  : SeqsUpTo(AnalysisPool, MaxAnalyses) \ {<<>>},
                 generated : GENERATOR_OUTCOMES]
    /\ ret = NoReturn
    /\ Idle

CallGenerateWeeklyReport ==
    /\ app = "generate_weekly_report"
    /\ ret = NoReturn
    /\ ret' = [fn    |-> "generate_weekly_report",
               value |-> agno_generate_weekly_report(arg.analyses, arg.generated)]
    /\ UNCHANGED <<app, hashseed, arg, current_report, outcome, fetched, prev_run,
                   week, reports, response, calls>>

InitSources == InitGenerateWeeklyReport \/ (InitWorkflow /\ app = "agno_app")

NextSources == CallGenerateWeeklyReport \/ AgnoRun \/ AdvanceWeek

SpecSources == InitSources /\ [][NextSources]_vars

---------------------------------------------------------------------------
(* The whole program: any of the entry points.                             *)

Init ==
    \/ InitAnalyzers \/ InitDashboard \/ InitWorkflow \/ InitFetcher
    \/ InitGenerateWeeklyReport

Next ==
    \/ NextAnalyzers \/ NextDashboard \/ NextWorkflow \/ NextFetcher
    \/ CallGenerateWeeklyReport

Spec == Init /\ [][Next]_vars

---------------------------------------------------------------------------
(* Properties of the analyzers (SpecAnalyzers).                            *)

Returned(fn) == ret # NoReturn /\ ret.fn = fn

Frequency(xs, x) == Cardinality({i \in 1..Len(xs) : xs[i] = x})

FirstAt(xs, x) == CHOOSE i \in 1..Len(xs) : xs[i] = x /\ \A j \in 1..(i - 1) : xs[j] # x

\* The feature lines analyze_releases collects from its argument before it
\* deduplicates and caps them.
CollectedFeatures ==
    LET live == SelectSeq(arg, LAMBDA r : ~r.draft)
    IN  Flatten([i \in 1..Len(live) |-> release_features(live[i])])

\* C1: for every input the per-repository analysis stays within its caps:
\* analyze_releases returns at most 5 key_features and at most 3
\* breaking_changes, and analyze_issues at most 5 critical_bugs, at most 5
\* feature_requests and at most 5 recurring_issues.
C1_CapsHold ==
    /\ Returned("analyze_releases") =>
          /\ Len(ret.value.key_features) <= 5
          /\ Len(ret.value.breaking_changes) <= 3
    /\ Returned("analyze_issues") =>
          /\ Len(ret.value.critical_bugs) <= 5
          /\ Len(ret.value.feature_requests) <= 5
          /\ Len(ret.value.recurring_issues) <= 5

\* C1's case: the releases hold more than 5 distinct feature lines and the
\* call returned exactly 5 of them.
C1_Witness ==
    /\ Returned("analyze_releases")
    /\ ~ret.value.raised
    /\ Cardinality(Range(CollectedFeatures)) > 5
    /\ Len(ret.value.key_features) = 5

\* C2: every entry of recurring_issues has a count above 1, and a token that
\* occurs once in the titles is not among the emitted patterns.
C2_CountAboveOne ==
    Returned("analyze_issues") =>
        LET counts == word_counts(arg)
            emitted == {ret.value.recurring_issues[i].pattern :
                            i \in 1..Len(ret.value.recurring_issues)}
        IN  /\ \A i \in 1..Len(ret.value.recurring_issues) :
                    ret.value.recurring_issues[i].count > 1
            /\ \A k \in 1..Len(counts) :
                    counts[k].count = 1 =>
                        str_capitalize(counts[k].elem) \notin emitted

\* C2's case: patterns were emitted while some token of the titles occurs once.
C2_Witness ==
    /\ Returned("analyze_issues")
    /\ ret.value.recurring_issues # <<>>
    /\ \E k \in 1..Len(word_counts(arg)) : word_counts(arg)[k].count = 1

---------------------------------------------------------------------------
(* Properties of the "Analyze Competitors" handler (SpecDashboard).        *)

FetchFailed(answer) ==
    \/ answer.transport_error
    \/ answer.releases_status # 200
    \/ answer.issues_status # 200

\* No release of the answer has a null body (the input analyze_releases
\* raises on, see C15).
WellFormed(answer) ==
    \A i \in 1..Len(answer.releases_json) : answer.releases_json[i].body.t # "null"

ProjectNames(analyses) == [i \in 1..Len(analyses) |-> analyses[i].project_name]

\* C3: when zero repositories yield usable data the run ends in a reported
\* failure and no report is produced or stored.  Stated for the report in the
\* session and the fetches it was made from.
C3_ZeroDataIsFailure ==
    (/\ fetched.set
     /\ fetched.selected # <<>>
     /\ \A i \in 1..Len(fetched.answers) : FetchFailed(fetched.answers[i]))
    => ~current_report.set

\* C4: when the fetch of one selected repository fails (transport exception
\* or non-success status) while others succeed, the run produces a report,
\* the failed repository has no entry in its analyses, and the remaining
\* analyses are in the order of the selection.  Stated for well-formed data.
C4_FailedRepoOmitted ==
    (/\ fetched.set
     /\ \A i \in 1..Len(fetched.answers) : WellFormed(fetched.answers[i])
     /\ \E i \in 1..Len(fetched.answers) : FetchFailed(fetched.answers[i])
     /\ \E i \in 1..Len(fetched.answers) : ~FetchFailed(fetched.answers[i]))
    => /\ current_report.set
       /\ ProjectNames(current_report.analyses) =
             AtIndices(fetched.selected,
                       {i \in 1..Len(fetched.selected) :
                           ~FetchFailed(fetched.answers[i])})

\* C8: two runs on identical fetched input yield identical report content
\* (the report date is not part of the modelled report).
C8_SameInputSameReport ==
    (prev_run.set /\ outcome = "complete") => current_report = prev_run.report

TrendPrefix == "Common focus: "

IsCommonFocus(t) ==
    Len(t) >= Len(TrendPrefix) /\ SubSeq(t, 1, Len(TrendPrefix)) = TrendPrefix

FocusOf(t) == SubSeq(t, Len(TrendPrefix) + 1, Len(t))

PooledFeatures ==
    Flatten([i \in 1..Len(current_report.analyses) |->
                current_report.analyses[i].key_features])

\* The analyses (by position, one per repository) that list feature f.
ReposWith(f) ==
    {i \in 1..Len(current_report.analyses) :
        f \in Range(current_report.analyses[i].key_features)}

RanksBefore(g, f) ==
    \/ Frequency(PooledFeatures, g) > Frequency(PooledFeatures, f)
    \/ /\ Frequency(PooledFeatures, g) = Frequency(PooledFeatures, f)
       /\ FirstAt(PooledFeatures, g) < FirstAt(PooledFeatures, f)

FocusTrends == SelectSeq(current_report.industry_trends, IsCommonFocus)

\* C9: the aggregator emits at most 3 "Common focus: <feature>" statements,
\* each for a feature listed by at least two repositories, ordered by
\* descending pooled frequency, ties by first appearance in the pooled list.
C9_TrendsRanked ==
    current_report.set =>
        /\ Len(FocusTrends) <= 3
        /\ \A i \in 1..Len(FocusTrends) :
              Cardinality(ReposWith(FocusOf(FocusTrends[i]))) >= 2
        /\ \A i, j \in 1..Len(FocusTrends) :
              i < j => RanksBefore(FocusOf(FocusTrends[i]), FocusOf(FocusTrends[j]))

\* C9's case: three statements whose features differ in pooled frequency.
C9_Witness ==
    /\ current_report.set
    /\ Len(FocusTrends) = 3
    /\ Frequency(PooledFeatures, FocusOf(FocusTrends[1]))
          > Frequency(PooledFeatures, FocusOf(FocusTrends[3]))

\* C10 as claimed: a feature listed by two or more repositories is in the
\* trend list, a feature listed by one repository is not.
C10_EveryCommonFeatureListed ==
    current_report.set =>
        \A f \in Range(PooledFeatures) :
            /\ Cardinality(ReposWith(f)) >= 2 =>
                  (TrendPrefix \o f) \in Range(current_report.industry_trends)
            /\ Cardinality(ReposWith(f)) = 1 =>
                  (TrendPrefix \o f) \notin Range(current_report.industry_trends)

\* C10 amended: "Common focus: f" is in the trend list exactly when f is
\* listed by two or more repositories and fewer than 3 pooled features rank
\* before it (higher pooled frequency, or the same and an earlier first
\* appearance); a feature listed by one repository is never in it.
C10_CommonFeatureListedUpToCap ==
    current_report.set =>
        \A f \in Range(PooledFeatures) :
            (TrendPrefix \o f) \in Range(current_report.industry_trends)
            <=> /\ Cardinality(ReposWith(f)) >= 2
                /\ Cardinality({g \in Range(PooledFeatures) : RanksBefore(g, f)}) < 3

\* C10's case: a feature that two repositories list is cut by the cap.
C10_Witness ==
    /\ current_report.set
    /\ \E f \in Range(PooledFeatures) :
          /\ Cardinality(ReposWith(f)) >= 2
          /\ (TrendPrefix \o f) \notin Range(current_report.industry_trends)

---------------------------------------------------------------------------
(* Properties of the cached workflow (SpecWorkflow).  A step that leaves   *)
(* the week as it is and changes the state is a call of run(): calls' and  *)
(* response' are what that call was asked and what it returned.            *)

IsReport(x) == x.cls = "WeeklyReport"

HasEntry(week_key) ==
    \E i \in 1..Len(reports.list) : reports.list[i].week = week_key

LastEntry == reports.list[Len(reports.list)]

\* C5: a run with use_cache=true while the cache holds an entry for the
\* current week makes no fetcher call and no agent call, returns a report
\* cached under that week, and leaves the cache as it was.
C5_CacheHitShortCircuits ==
    [][ (week' = week /\ calls'.use_cache /\ HasEntry(week)) =>
            /\ calls'.fetcher = 0
            /\ calls'.agent = 0
            /\ reports' = reports
            /\ IsReport(response')
            /\ \E i \in 1..Len(reports.list) :
                  /\ reports.list[i].week = week
                  /\ reports.list[i].data = model_dump(response') ]_vars

\* C5's case: the last run asked for the cache and was served from it.
C5_Witness ==
    /\ calls.use_cache
    /\ calls.fetcher = 0
    /\ IsReport(response)
    /\ HasEntry(week)

\* The last run assembled a report and cached it under the current week.
AssembledThisWeek ==
    /\ IsReport(response)
    /\ calls.fetcher > 0
    /\ reports.list # <<>>
    /\ LastEntry = [week |-> week, data |-> model_dump(response)]

\* C6: after a run has assembled a report and cached it under week W, a
\* following run with use_cache=true in week W returns a report equal to
\* it, and calls no fetcher.
C6_CacheRoundTrip ==
    [][ (AssembledThisWeek /\ week' = week /\ calls'.use_cache) =>
            /\ calls'.fetcher = 0
            /\ response' = response ]_vars

\* C7: a run that misses the cache, or does not ask for it, and returns a
\* report appends one entry {current week, that report} at the end of the
\* cache; the entries before it are as they were, in the same order.
C7_MissAppendsOneEntry ==
    [][ (/\ week' = week
         /\ ~calls'.use_cache \/ ~HasEntry(week)
         /\ IsReport(response')) =>
            /\ reports'.set
            /\ reports'.list =
                  Append(reports.list,
                         [week |-> week, data |-> model_dump(response')]) ]_vars

\* C7's case: a run assembled a report while the cache held another one.
C7_Witness ==
    /\ Len(reports.list) = 2
    /\ AssembledThisWeek
    /\ reports.list[1].data # reports.list[2].data

---------------------------------------------------------------------------
(* More properties of the "Analyze Competitors" handler (SpecDashboard).   *)

SomeFeatureShared ==
    \E f \in Range(PooledFeatures) : Cardinality(ReposWith(f)) > 1

\* C11: the industry_trends of an assembled report is never empty; it is the
\* three default statements exactly when no feature is in the key_features
\* of more than one repository, and otherwise holds only "Common focus: ..."
\* statements.
C11_TrendsNeverEmpty ==
    current_report.set =>
        /\ current_report.industry_trends # <<>>
        /\ (current_report.industry_trends = DEFAULT_TRENDS) <=> ~SomeFeatureShared
        /\ SomeFeatureShared =>
              \A i \in 1..Len(current_report.industry_trends) :
                  IsCommonFocus(current_report.industry_trends[i])

\* C11's case: features were pooled, none of them shared, and the defaults
\* were substituted.
C11_Witness ==
    /\ current_report.set
    /\ PooledFeatures # <<>>
    /\ ~SomeFeatureShared
    /\ current_report.industry_trends = DEFAULT_TRENDS

---------------------------------------------------------------------------
(* Properties of get_github_data (SpecFetcher).                            *)

ReleaseCap(variant) ==
    IF variant = "agno_app" THEN AgnoReleasesKept ELSE ReleasesKept

IssueCap(variant) ==
    CASE variant = "agno_app"                 -> AgnoIssuesKept
      [] variant = "real_data_app"            -> RealIssuesPerPage
      [] variant = "competitive_intelligence" -> CIIssuesPerPage

TagsOf(releases) == [i \in 1..Len(releases) |-> releases[i].tag_name]

\* The text of a body in the bundle: agno_app keeps a str, the other two
\* variants pass the JSON value on.
ReleaseBodyText(variant, release) ==
    IF variant = "agno_app" THEN release.body ELSE release.body.v

IssueBodyText(variant, issue) ==
    IF variant = "agno_app" THEN issue.body ELSE issue_body(issue).v

\* C12: on a transport exception or a non-200 status of the releases or the
\* issues endpoint, get_github_data returns an empty bundle and signals the
\* failure (in real_data_app by a status other than "success").
C12_FailureIsEmptyAndSignalled ==
    (Returned("get_github_data") /\ FetchFailed(arg.answer)) =>
        /\ ret.value.releases = <<>>
        /\ ret.value.issues = <<>>
        /\ arg.variant = "real_data_app" => ret.value.status # "success"

\* C13: the bundle holds at most 3 (agno_app) or 5 releases, the front of
\* the API's list in its order, and at most 20 (agno_app), 100
\* (real_data_app) or 50 (competitive_intelligence) issues.
C13_BundleCapped ==
    Returned("get_github_data") =>
        /\ Len(ret.value.releases) <= ReleaseCap(arg.variant)
        /\ TagsOf(ret.value.releases) =
              Take(TagsOf(arg.answer.releases_json), Len(ret.value.releases))
        /\ Len(ret.value.issues) <= IssueCap(arg.variant)

\* C14: in every variant no release body of the bundle is longer than 500
\* characters and no issue body longer than 200; agno_app keeps at most 3
\* labels per issue.
C14_TextWithinBudget ==
    Returned("get_github_data") =>
        /\ \A i \in 1..Len(ret.value.releases) :
              Len(ReleaseBodyText(arg.variant, ret.value.releases[i]))
                  <= ReleaseBodyBudget
        /\ \A i \in 1..Len(ret.value.issues) :
              Len(IssueBodyText(arg.variant, ret.value.issues[i])) <= IssueBodyBudget
        /\ arg.variant = "agno_app" =>
              \A i \in 1..Len(ret.value.issues) :
                  Len(ret.value.issues[i].labels) <= LabelsKept

---------------------------------------------------------------------------
(* More properties of the analyzers (SpecAnalyzers).                       *)

\* A release whose body is the empty string, absent or null.
BlankBody(release) == release.body.t \in {"null", "absent"} \/ release.body.v = ""

WithoutBlank(releases) == SelectSeq(releases, LAMBDA r : ~BlankBody(r))

\* C15: analyze_releases does not raise on a release whose body is empty,
\* absent or null; such a release adds nothing to key_features or
\* breaking_changes, and the other releases are analyzed as without it.
C15_BlankBodyHarmless ==
    Returned("analyze_releases") =>
        /\ ~ret.value.raised
        /\ ret.value.key_features =
              analyze_releases(WithoutBlank(arg), hashseed).key_features
        /\ ret.value.breaking_changes =
              analyze_releases(WithoutBlank(arg), hashseed).breaking_changes

\* The maximal runs of characters of `chars` in s, from left to right.
TokensOf(s, chars) ==
    LET starts == {i \in 1..Len(s) :
                      /\ CharAt(s, i) \in chars
                      /\ i = 1 \/ CharAt(s, i - 1) \notin chars}
        end(i) == CHOOSE j \in i..Len(s) :
                      /\ \A k \in i..j : CharAt(s, k) \in chars
                      /\ j = Len(s) \/ CharAt(s, j + 1) \notin chars
        nth(n) == CHOOSE i \in starts : Cardinality({h \in starts : h < i}) = n - 1
    IN  [n \in 1..Cardinality(starts) |-> SubSeq(s, nth(n), end(nth(n)))]

\* The tokens of a lower-cased title that are longer than 4 characters and
\* are not issue, error or problem.
KeptTokens(title, chars) ==
    SelectSeq(TokensOf(str_lower(title), chars),
              LAMBDA w : Len(w) > 4 /\ w \notin {"issue", "error", "problem"})

\* Those tokens for each title of the pool, as runs of letters and digits
\* and as runs of letters, digits and underscores.
ALPHANUMERIC_TOKENS ==
    [t \in {issue.title : issue \in IssuePool} |->
        KeptTokens(t, Chars(Lowers) \cup Chars(Uppers) \cup Chars(Digits))]

WORD_TOKENS ==
    [t \in {issue.title : issue \in IssuePool} |-> KeptTokens(t, WordChars)]

\* The reference result over the kept tokens of the titles of the argument:
\* the 5 of highest count, ties by first appearance; of those the ones
\* counted more than once, capitalized, with their counts.
ReferencePatterns(tokens_of) ==
    LET tokens == Flatten([i \in 1..Len(arg) |-> tokens_of[arg[i].title]])
        count  == [w \in Range(tokens) |-> Frequency(tokens, w)]
        first  == [w \in Range(tokens) |-> FirstAt(tokens, w)]
        rank   == [w \in Range(tokens) |->
                      Cardinality({v \in Range(tokens) :
                          \/ count[v] > count[w]
                          \/ count[v] = count[w] /\ first[v] < first[w]})]
        kept   == {w \in Range(tokens) : rank[w] < 5 /\ count[w] > 1}
    IN  [n \in 1..Cardinality(kept) |->
            LET w == CHOOSE v \in kept : rank[v] = n - 1
            IN  [pattern |-> str_capitalize(w), count |-> count[w]]]

NonIncreasingCounts(patterns) ==
    \A i \in 1..(Len(patterns) - 1) : patterns[i].count >= patterns[i + 1].count

RegressionTitles ==
    <<Issue("Build performance regression", <<>>),
      Issue("Build performance regression", <<>>),
      Issue("Unrelated typo fix", <<>>)>>

RegressionExample ==
    arg = RegressionTitles =>
        /\ [pattern |-> "Performance", count |-> 2] \in Range(ret.value.recurring_issues)
        /\ \A i \in 1..Len(ret.value.recurring_issues) :
              ret.value.recurring_issues[i].pattern
                  \notin {"Unrelated", "Typo", "Fix"}

\* C19 as stated: recurring_issues is the reference result over the
\* alphanumeric tokens (runs of letters and digits) of the titles, so it is
\* in non-increasing count order, and the titles "Build performance
\* regression" twice and "Unrelated typo fix" once give {Performance, 2} and
\* no token that occurs once.
C19_EqualsAlphanumericReference ==
    Returned("analyze_issues") =>
        /\ ret.value.recurring_issues
              = ReferencePatterns(ALPHANUMERIC_TOKENS)
        /\ NonIncreasingCounts(ret.value.recurring_issues)
        /\ RegressionExample

\* C19, amended: recurring_issues is the reference result over the tokens
\* that are runs of letters, digits and underscores; it is in non-increasing
\* count order, and the example titles give {Performance, 2} and no token
\* that occurs once.
C19_EqualsWordReference ==
    Returned("analyze_issues") =>
        /\ ret.value.recurring_issues = ReferencePatterns(WORD_TOKENS)
        /\ NonIncreasingCounts(ret.value.recurring_issues)
        /\ RegressionExample

\* Titles with an underscore were counted, patterns of different counts
\* were emitted and one of them holds the underscore.
C19_Witness ==
    /\ Returned("analyze_issues")
    /\ \E i, j \in 1..Len(ret.value.recurring_issues) :
          /\ ret.value.recurring_issues[i].count > ret.value.recurring_issues[j].count
          /\ str_contains(ret.value.recurring_issues[j].pattern, "_")

Min(a, b) == IF a < b THEN a ELSE b

\* Some label of the issue equals one of `labels` whatever the case, or the
\* title contains one of `words` whatever the case.
Satisfies(issue, labels, words) ==
    \/ \E k \in 1..Len(issue.labels) : str_lower(issue.labels[k]) \in labels
    \/ \E w \in words : str_contains(str_lower(issue.title), w)

IsBug(issue) ==
    Satisfies(issue, {"bug", "error", "crash", "problem"},
              {"bug", "error", "crash", "issue", "problem", "broken"})

IsFeatureRequest(issue) ==
    Satisfies(issue, {"enhancement", "feature", "request"},
              {"feature", "request", "enhancement", "add", "support"})

IS_BUG == [issue \in IssuePool |-> IsBug(issue)]

IS_FEATURE_REQUEST == [issue \in IssuePool |-> IsFeatureRequest(issue)]

\* `titles` is the titles of the first `cap` of the issues `hits`.
FirstTitlesOf(titles, hits, cap) ==
    /\ Len(titles) = Min(cap, Len(hits))
    /\ \A n \in 1..Len(titles) : titles[n] = hits[n].title

\* C20: is-bug and is-feature-request are decided for each issue on its
\* own and independently of each other; critical_bugs is exactly the titles
\* of the first 5 issues that satisfy is-bug, in encounter order, and
\* feature_requests the titles of the first 5 that satisfy
\* is-feature-request.
C20_BucketsAreFirstFive ==
    Returned("analyze_issues") =>
        /\ FirstTitlesOf(ret.value.critical_bugs, SelectSeq(arg, LAMBDA issue : IS_BUG[issue]), 5)
        /\ FirstTitlesOf(ret.value.feature_requests,
                         SelectSeq(arg, LAMBDA issue : IS_FEATURE_REQUEST[issue]),
                         5)

\* The argument holds an issue that is in both lists and one that is in
\* neither, and more than 5 bugs of which 5 were returned.
C20_Witness ==
    /\ Returned("analyze_issues")
    /\ \E i \in 1..Len(arg) :
          /\ arg[i].title \in Range(ret.value.critical_bugs)
          /\ arg[i].title \in Range(ret.value.feature_requests)
    /\ \E i \in 1..Len(arg) : ~IS_BUG[arg[i]] /\ ~IS_FEATURE_REQUEST[arg[i]]
    /\ Cardinality({i \in 1..Len(arg) : IS_BUG[arg[i]]}) > 5
    /\ Len(ret.value.critical_bugs) = 5

\* The first LinesPerRelease lines, stripped, of the lower-cased body of a
\* release that contain one of `words`.
FirstMentions(release, words) ==
    LET lines == str_split(str_lower(release.body.v), "\n")
        hit   == {k \in 1..Len(lines) : any_word_in(words, str_strip(lines[k]))}
    IN  {str_strip(lines[k]) :
            k \in {h \in hit : Cardinality({j \in hit : j < h}) < 2}}

FEATURE_MENTIONS ==
    [release \in ReleasePool \cup BoundaryReleases |->
        FirstMentions(release, <<"feature", "new", "add", "implement">>)]

BREAKING_MENTIONS ==
    [release \in ReleasePool \cup BoundaryReleases |->
        FirstMentions(release, <<"breaking", "deprecated", "removed">>)]

\* S of the claim: those lines over the non-draft releases of the argument.
MentionedLines(mentions) ==
    UNION {mentions[arg[i]] : i \in {j \in 1..Len(arg) : ~arg[j].draft}}

\* `xs` is a duplicate-free list of Min(cap, |S|) elements of S.
CappedSubsetOf(xs, S, cap) ==
    /\ Range(xs) \subseteq S
    /\ Cardinality(Range(xs)) = Len(xs)
    /\ Len(xs) = Min(cap, Cardinality(S))

DarkModeRelease ==
    Release("v1", Str("Added new feature: dark mode\nBreaking: removed legacy config"),
            FALSE)

\* C18: when analyze_releases returns, key_features is a duplicate-free
\* selection of min(5, |S|) lines of S, the stripped lower-cased lines got by
\* taking from each non-draft release its first 2 lines that mention feature,
\* new, add or implement; breaking_changes likewise for breaking, deprecated,
\* removed and cap 3.  The release "Added new feature: dark mode / Breaking:
\* removed legacy config" alone gives the dark-mode line as feature and the
\* removed-legacy-config line as breaking change.
C18_FeaturesAreCappedSubset ==
    (Returned("analyze_releases") /\ ~ret.value.raised) =>
        /\ CappedSubsetOf(ret.value.key_features,
                          MentionedLines(FEATURE_MENTIONS), 5)
        /\ CappedSubsetOf(ret.value.breaking_changes,
                          MentionedLines(BREAKING_MENTIONS), 3)
        /\ arg = <<DarkModeRelease>> =>
              /\ ret.value.key_features = <<"added new feature: dark mode">>
              /\ ret.value.breaking_changes = <<"breaking: removed legacy config">>

\* Two releases carry the same feature line, a third is a draft, and the
\* call returned the shared line once.
C18_Witness ==
    /\ Returned("analyze_releases")
    /\ ~ret.value.raised
    /\ \E i, j, k \in 1..Len(arg) :
          /\ i # j
          /\ ~arg[i].draft /\ ~arg[j].draft /\ arg[k].draft
          /\ FEATURE_MENTIONS[arg[i]] \cap FEATURE_MENTIONS[arg[j]] # {}
    /\ ret.value.key_features # <<>>
    /\ Len(ret.value.key_features)
          = Cardinality(MentionedLines(FEATURE_MENTIONS))

---------------------------------------------------------------------------
(* More properties of run() (SpecWorkflow).  calls.agents holds, for each  *)
(* repository of the last run, what its data analyzer did, and             *)
(* calls.generated what the report generator did.                          *)

\* The data analyzer ran for the i-th repository and its content was absent
\* or of another type.
ContentRejected(c, i) == c.agents[i] = "no model"

\* The data analyzer ran for the i-th repository and produced an analysis.
ContentProduced(c, i) == c.agents[i] = "model"

\* The analyses of a report that are about the named project.
AnalysesOf(report, name) ==
    {k \in 1..Len(report.analyses) :
        /\ report.analyses[k].cls = "CompetitorAnalysis"
        /\ report.analyses[k].project_name = name}

\* C16: a repository whose data-analyzer content is absent or is not a
\* CompetitorAnalysis is dropped on its own: the run goes on to the report
\* generator with the analyses of the other repositories, and a report it
\* returns covers exactly the repositories whose analyzer produced one.  When
\* the report generator's content is absent or is not a WeeklyReport the run
\* returns a failure value and leaves the cache as it was.
C16_AgentOutputTypeChecked ==
    [][ /\ \A i \in 1..Len(calls'.agents) :
              /\ (ContentRejected(calls', i) /\ IsReport(response')) =>
                     AnalysesOf(response', calls'.selected[i]) = {}
              /\ (ContentProduced(calls', i) /\ IsReport(response')) =>
                     Cardinality(AnalysesOf(response', calls'.selected[i])) = 1
              /\ ContentProduced(calls', i) => calls'.generated # "not run"
        /\ IsReport(response') =>
              \A k \in 1..Len(response'.analyses) :
                  response'.analyses[k].cls = "CompetitorAnalysis"
        /\ calls'.generated = "no model" =>
              /\ ~IsReport(response')
              /\ reports' = reports
      ]_vars

\* A run over two repositories dropped the one whose analyzer content was
\* rejected and returned a report on the other.
C16_Witness ==
    /\ app = "agno_app"
    /\ Len(calls.agents) = 2
    /\ \E i, j \in 1..2 :
          /\ ContentRejected(calls, i)
          /\ ContentProduced(calls, j)
    /\ IsReport(response)
    /\ Len(response.analyses) = 1

---------------------------------------------------------------------------
(* How the variants end (SpecDashboard for the handler of real_data_app).  *)

\* C17: whatever the fetcher and the analysis step do, the click on "Analyze
\* Competitors" ends normally, with a report on fewer repositories or with
\* none: no exception leaves the analysis loop.
C17_NoExceptionEscapes == outcome # "exception"

---------------------------------------------------------------------------
(* Properties of the release summaries (SpecAnalyzers).                    *)

NonDraftAt == {i \in 1..Len(arg) : ~arg[i].draft}

\* The position in the argument of its n-th release that is not a draft.
NthNonDraft(n) ==
    CHOOSE i \in NonDraftAt : Cardinality({h \in NonDraftAt : h < i}) = n - 1

\* C21: when analyze_releases returns, recent_releases holds exactly one
\* summary for each release of the argument that is not a draft, in the order
\* of the argument; a draft gives no summary, and no line of a draft is
\* among key_features or breaking_changes.
C21_OneSummaryPerNonDraft ==
    (Returned("analyze_releases") /\ ~ret.value.raised) =>
        /\ Len(ret.value.recent_releases) = Cardinality(NonDraftAt)
        /\ \A n \in 1..Len(ret.value.recent_releases) :
              ret.value.recent_releases[n].version = arg[NthNonDraft(n)].tag_name
        /\ Range(ret.value.key_features) \subseteq MentionedLines(FEATURE_MENTIONS)
        /\ Range(ret.value.breaking_changes) \subseteq MentionedLines(BREAKING_MENTIONS)

\* A draft with feature and breaking lines stands between two releases that
\* are none, and the call returned two summaries.
C21_Witness ==
    /\ Returned("analyze_releases")
    /\ ~ret.value.raised
    /\ Len(arg) = 3
    /\ ~arg[1].draft /\ arg[2].draft /\ ~arg[3].draft
    /\ FEATURE_MENTIONS[arg[2]] # {}
    /\ BREAKING_MENTIONS[arg[2]] # {}
    /\ Len(ret.value.recent_releases) = 2

\* The body of the n-th release of the argument that is not a draft (an
\* absent body reads as the empty string).
NthBody(n) == arg[NthNonDraft(n)].body.v

\* C22: the description of a summary is the body of its release as it is
\* when the body has at most 200 characters, and the first 200 characters
\* of the body followed by "..." when it has more; so a description differs
\* from the body only by a cut and an added ellipsis, and only when the body
\* was longer than 200 characters.
C22_DescriptionCutAt200 ==
    (Returned("analyze_releases") /\ ~ret.value.raised) =>
        \A n \in 1..Len(ret.value.recent_releases) :
            LET description == ret.value.recent_releases[n].description
            IN  /\ Len(NthBody(n)) <= 200 => description = NthBody(n)
                /\ Len(NthBody(n)) > 200 =>
                      /\ Len(description) = 203
                      /\ SubSeq(description, 1, 200) = SubSeq(NthBody(n), 1, 200)
                      /\ SubSeq(description, 201, 203) = "..."

\* A body of 201 characters was summarised.
C22_Witness ==
    /\ Returned("analyze_releases")
    /\ ~ret.value.raised
    /\ Len(arg) = 1
    /\ Len(arg[1].body.v) = 201
    /\ Len(ret.value.recent_releases[1].description) = 203

\* C24: analyze_issues on the empty list returns, and returns empty
\* recurring_issues, empty critical_bugs and empty feature_requests.
C24_EmptyListGivesEmptyResult ==
    (app = "analyze_issues" /\ arg = <<>> /\ ret # NoReturn) =>
        /\ ret.fn = "analyze_issues"
        /\ ret.value.recurring_issues = <<>>
        /\ ret.value.critical_bugs = <<>>
        /\ ret.value.feature_requests = <<>>

\* analyze_issues was called on the empty list and returned.
C24_Witness ==
    /\ Returned("analyze_issues")
    /\ arg = <<>>
    /\ DOMAIN ret.value = {"recurring_issues", "critical_bugs", "feature_requests"}

---------------------------------------------------------------------------
(* The industry-wide issue statements (SpecDashboard).                     *)

IssuePrefix == "Industry-wide: "

IssueSuffix == " issues"

IsIssueStatement(t) ==
    /\ Len(t) >= Len(IssuePrefix) + Len(IssueSuffix)
    /\ SubSeq(t, 1, Len(IssuePrefix)) = IssuePrefix
    /\ SubSeq(t, Len(t) - Len(IssueSuffix) + 1, Len(t)) = IssueSuffix

PatternOf(t) == SubSeq(t, Len(IssuePrefix) + 1, Len(t) - Len(IssueSuffix))

\* The analyses (by position, one per repository) with the pattern among
\* their recurring_issues.
ReposWithPattern(p) ==
    {i \in 1..Len(current_report.analyses) :
        \E k \in 1..Len(current_report.analyses[i].recurring_issues) :
            current_report.analyses[i].recurring_issues[k].pattern = p}

AllPatterns ==
    UNION {{current_report.analyses[i].recurring_issues[k].pattern :
                k \in 1..Len(current_report.analyses[i].recurring_issues)} :
           i \in 1..Len(current_report.analyses)}

\* C23: common_issues holds at most 3 statements, each "Industry-wide:
\* <pattern> issues" for a pattern among the recurring_issues of at least two
\* repositories, in descending order of the number of repositories with the
\* pattern; when no pattern recurs across repositories the list is empty,
\* with no default statements in its place.
C23_CommonIssuesRanked ==
    current_report.set =>
        LET common == current_report.common_issues
        IN  /\ Len(common) <= 3
            /\ \A i \in 1..Len(common) :
                  /\ IsIssueStatement(common[i])
                  /\ Cardinality(ReposWithPattern(PatternOf(common[i]))) >= 2
            /\ \A i, j \in 1..Len(common) :
                  i < j => Cardinality(ReposWithPattern(PatternOf(common[i])))
                             >= Cardinality(ReposWithPattern(PatternOf(common[j])))
            /\ (\A p \in AllPatterns : Cardinality(ReposWithPattern(p)) < 2)
                  => common = <<>>

\* Three statements were emitted, the first for a pattern of three
\* repositories and the last for a pattern of two.
C23_Witness ==
    /\ current_report.set
    /\ Len(current_report.common_issues) = 3
    /\ Cardinality(ReposWithPattern(PatternOf(current_report.common_issues[1]))) = 3
    /\ Cardinality(ReposWithPattern(PatternOf(current_report.common_issues[3]))) = 2

---------------------------------------------------------------------------
(* The cache over sequences of runs (SpecWorkflow).                        *)

\* C25: whatever runs were made, the cache holds at most one entry for a
\* week key.
C25_OneEntryPerWeek ==
    \A i, j \in 1..Len(reports.list) :
        reports.list[i].week = reports.list[j].week => i = j

\* The entry cached last under the week key.
LatestEntry(week_key) ==
    LET at == {i \in 1..Len(reports.list) : reports.list[i].week = week_key}
    IN  reports.list[CHOOSE i \in at : \A j \in at : j <= i]

\* C26: a run with use_cache=true that hits the cache returns the report of
\* the entry cached last under the current week, never an older one.
C26_HitReturnsLatest ==
    [][ (/\ week' = week
         /\ calls'.use_cache
         /\ HasEntry(week)) =>
            response' = model_validate(LatestEntry(week).data)
      ]_vars

\* C27: a report returned by run(selected_competitors, use_cache) of
\* agno_app holds analyses of selected repositories only, also when it comes
\* from the cache.
C27_OnlySelectedAnalysed ==
    (app = "agno_app" /\ IsReport(response)) =>
        \A k \in 1..Len(response.analyses) :
            response.analyses[k].project_name \in Range(calls.selected)

---------------------------------------------------------------------------
(* Empty bundles in run() of agno_app (SpecWorkflow).  calls.bundles       *)
(* holds, for each repository of the last run, what the fetcher returned.  *)

\* C28: in agno_app an empty bundle counts as no data: the data analyzer is
\* not run for that repository, the repository is not among the analyses,
\* and the run goes on: every selected repository is fetched, and an
\* analysis produced for another one reaches the report generator.
C28_EmptyBundleIsNoData ==
    (app = "agno_app" /\ calls.bundles # <<>>) =>
        /\ Len(calls.bundles) = Len(calls.selected)
        /\ \A i \in 1..Len(calls.bundles) :
              calls.bundles[i] = "empty" =>
                  /\ calls.agents[i] = "not run"
                  /\ IsReport(response) =>
                        AnalysesOf(response, calls.selected[i]) = {}
                  /\ \A j \in 1..Len(calls.bundles) :
                        ContentProduced(calls, j) =>
                            /\ calls.generated # "not run"
                            /\ IsReport(response) =>
                                  AnalysesOf(response, calls.selected[j]) # {}

\* The first repository of a run gave an empty bundle, the second was
\* analysed, and the run returned a report on the second alone.
C28_Witness ==
    /\ app = "agno_app"
    /\ calls.bundles = <<"empty", "data">>
    /\ calls.agents = <<"not run", "model">>
    /\ IsReport(response)
    /\ Len(response.analyses) = 1

---------------------------------------------------------------------------
(* Where a recurring pattern comes from (SpecAnalyzers).                   *)

\* The issues of the argument (by position) with a title that holds the
\* token of the pattern.
IssuesWithPattern(pattern) ==
    {i \in 1..Len(arg) :
        \E k \in 1..Len(WORD_TOKENS[arg[i].title]) :
            str_capitalize(WORD_TOKENS[arg[i].title][k]) = pattern}

\* C29: every pattern of recurring_issues is a token of the titles of at
\* least two issues of the argument.
C29_PatternSpansTwoIssues ==
    Returned("analyze_issues") =>
        \A k \in 1..Len(ret.value.recurring_issues) :
            Cardinality(IssuesWithPattern(ret.value.recurring_issues[k].pattern)) >= 2

---------------------------------------------------------------------------
(* Properties of the sources of a weekly report (SpecSources).             *)

RECURSIVE SourceLines(_)
SourceLines(analyses) ==
    IF analyses = <<>> THEN <<>>
    ELSE LET first == Head(analyses)
         IN  (IF first.repository_url = "" THEN <<>>
              ELSE <<first.project_name \o ": " \o first.repository_url>>)
             \o SourceLines(Tail(analyses))

AgentSources == PyList(<<"GitHub REST API">>)

\* What the claim says of one report, given the analyses it was generated
\* from and whether the agent supplied sources of its own.
SourcesAsClaimed(report, analyses, supplied) ==
    /\ (~supplied /\ SourceLines(analyses) # <<>>)
            => report.sources = PyList(SourceLines(analyses))
    /\ supplied => report.sources = AgentSources

\* C30: when the agent returns a WeeklyReport with no sources and at least one
\* analysis has a repository_url, generate_weekly_report of agno_app returns
\* the report with sources set to the "<project_name>: <repository_url>" lines
\* of those analyses, in analysis order; sources the agent supplied are
\* returned as they came; and the entry run() caches for the report carries
\* the same sources as the report it returns.
C30_SourcesFilledAndCached ==
    /\ (Returned("generate_weekly_report") /\ IsReport(ret.value))
            => /\ SourcesAsClaimed(ret.value, arg.analyses,
                                   arg.generated = "model_with_sources")
               /\ model_dump(ret.value).sources = ret.value.sources
    /\ (/\ app = "agno_app"
        /\ calls.generated \in {"model", "model with sources"}
        /\ IsReport(response))
            => /\ SourcesAsClaimed(response, response.analyses,
                                   calls.generated = "model with sources")
               /\ reports.list # <<>>
               /\ LastEntry.data.sources = response.sources

\* A call on an analysis without a repository_url followed by one with it,
\* answered without sources, and a run whose report of two analyses was cached
\* with the sources generate_weekly_report built.
C30_WitnessCall ==
    /\ Returned("generate_weekly_report")
    /\ arg.generated = "model"
    /\ Len(arg.analyses) = 2
    /\ arg.analyses[1].repository_url = ""
    /\ arg.analyses[2].repository_url # ""
    /\ IsReport(ret.value)
    /\ ret.value.sources = PyList(SourceLines(<<arg.analyses[2]>>))

C30_Witness ==
    /\ app = "agno_app"
    /\ calls.generated = "model"
    /\ IsReport(response)
    /\ Len(response.analyses) = 2
    /\ response.sources =
           PyList(<<"Next.js: https://github.com/vercel/next.js",
                    "Nuxt: https://github.com/nuxt/nuxt">>)
    /\ LastEntry.data.sources = response.sources

=============================================================================
